---- MODULE Spec2Model ----
(***************************************************************************)
(* Model of the Foodgram API views (backend/api/views.py): the relation    *)
(* toggles (favorite, shopping cart, subscription), the annotated recipe   *)
(* query, the shopping list export and user registration, over the rows of *)
(* the relational store.                                                   *)
(***************************************************************************)
EXTENDS Integers, FiniteSets, Sequences, TLC

VARIABLES favorites, groceries_list, subscriptions, sub_history, users,
          recipes_ingredients, tokens, reqs, resp

vars == <<favorites, groceries_list, subscriptions, sub_history, users,
          recipes_ingredients, tokens, reqs, resp>>

(***************************************************************************)
(* Bounds of the model.                                                    *)
(***************************************************************************)
NumUsers == 2

NumRecipes == 2

\* Cap on the rows the favorites and cart relations hold together.
MaxRows == 2

\* Cap on the rows of the User table in the registration model.
MaxUsers == 3

\* SQL NULL / Python None (AnonymousUser.pk is None).
NULL == 0

UserIds == 1..NumUsers

\* An id that is one past the last stored row: a primary key of no row.
UserPks == 1..(NumUsers + 1)

Recipes == 1..NumRecipes

RecipePks == 1..(NumRecipes + 1)

\* request.user: an authenticated user or the anonymous user (pk None).
Requesters == UserIds \cup {NULL}

HTTP_200_OK == 200

HTTP_201_CREATED == 201

HTTP_204_NO_CONTENT == 204

HTTP_400_BAD_REQUEST == 400

HTTP_401_UNAUTHORIZED == 401

HTTP_404_NOT_FOUND == 404

\* An exception no handler of the framework translates: the server fault.
HTTP_500_INTERNAL_SERVER_ERROR == 500

\* Two clients whose requests the server handles at the same time.
Clients == {1, 2}

\* A client with no request in flight.
Idle == [op |-> "none", user |-> NULL, pk |-> NULL, pc |-> "idle", status |-> 0]

\* The encoded JWTs of the model: the access and the refresh token of two
\* logins, and a string that is no valid refresh token (malformed or expired).
AccessTokens == {"access1", "access2"}

RefreshTokens == {"refresh1", "refresh2"}

BadToken == "bad"

\* No credential / no refresh_token in the payload.
NoToken == ""

\* The token tables after the logins: the OutstandingToken rows, no
\* BlacklistedToken row; at_login keeps the rows the logins created.
TokensAtLogin(tracked) ==
    [outstanding |-> tracked, blacklisted |-> {}, at_login |-> tracked]

EmptyRelation(A, B) == [p \in A \X B |-> 0]

NoResponse == [op |-> "none", user |-> NULL, pk |-> NULL, status |-> 0, body |-> {}]

Response(op, user, pk, status, body) ==
    [op |-> op, user |-> user, pk |-> pk, status |-> status, body |-> body]

(***************************************************************************)
(* Many-to-many relations Recipe.favorites and Recipe.groceries_list: the  *)
(* number of rows of the through table for each (user, recipe) pair.       *)
(***************************************************************************)
\* table.filter(pk=recipe.pk).exists() on the manager of one user.
relation_exists(table, user, pk) == table[<<user, pk>>] > 0

\* table.add(recipe): inserts the pairs that are missing, and nothing else
\* (the through table of the ManyToManyField keeps a pair to one row, and
\* add() skips or ignores a pair that is already there).
M2M_add(table, user, pk) ==
    IF table[<<user, pk>>] > 0 THEN table
    ELSE [table EXCEPT ![<<user, pk>>] = 1]

\* A removal that clears every row of the user (table.clear()).
M2M_remove_clears_user(table, user, pk) ==
    [p \in DOMAIN table |-> IF p[1] = user THEN 0 ELSE table[p]]

\* table.remove(recipe): deletes the rows of the pair.
M2M_remove(table, user, pk) == [table EXCEPT ![<<user, pk>>] = 0]

\* IsAuthenticated: a request without credentials is turned away.
IsAuthenticated(user) == user # NULL

\* The add without its relation.exists() test.
cart_favorite_method_unchecked(table, user, pk) ==
    IF pk \notin Recipes
    THEN [status |-> HTTP_500_INTERNAL_SERVER_ERROR, table |-> table]
    ELSE [status |-> HTTP_201_CREATED, table |-> M2M_add(table, user, pk)]

cart_favorite_method(table, user, pk) ==
    IF pk \notin Recipes
    THEN \* Recipe.objects.get raises Recipe.DoesNotExist, which the
         \* except Http404 clause does not catch.
         [status |-> HTTP_500_INTERNAL_SERVER_ERROR, table |-> table]
    ELSE IF relation_exists(table, user, pk)
    THEN [status |-> HTTP_400_BAD_REQUEST, table |-> table]
    ELSE [status |-> HTTP_201_CREATED, table |-> M2M_add(table, user, pk)]

cart_favorite_method_delete(table, user, pk) ==
    IF pk \notin Recipes
    THEN [status |-> HTTP_404_NOT_FOUND, table |-> table]
    ELSE IF relation_exists(table, user, pk)
    THEN [status |-> HTTP_204_NO_CONTENT, table |-> M2M_remove(table, user, pk)]
    ELSE [status |-> HTTP_400_BAD_REQUEST, table |-> table]

(***************************************************************************)
(* The annotated recipe query.                                             *)
(***************************************************************************)
\* LEFT OUTER JOIN of a recipe with one through table: the user_id column
\* of every joined row, or one row of NULL when the recipe has none.
LeftJoin(table, r) ==
    LET us == {u \in UserIds : table[<<u, r>>] > 0}
    IN  IF us = {} THEN {NULL} ELSE us

\* When(<relation>__pk=user.pk): a lookup with None is an IS NULL test,
\* a lookup with a value is an equality, which no NULL column satisfies.
WhenPk(column, pk) ==
    IF pk = NULL THEN column = NULL
    ELSE column # NULL /\ column = pk

\* One record per row of the two joins; fav_pk and cart_pk are the joined
\* columns, which tell the rows of one recipe apart.
get_queryset(user) ==
    UNION { { [id |-> r, fav_pk |-> f, cart_pk |-> c,
               is_favorited |-> WhenPk(f, user),
               is_in_shopping_cart |-> WhenPk(c, user)]
              : f \in LeftJoin(favorites, r), c \in LeftJoin(groceries_list, r) }
            : r \in Recipes }

(***************************************************************************)
(* Requests on the recipe endpoints, each run to completion.               *)
(***************************************************************************)
RECURSIVE SumOver(_, _)
SumOver(f, S) ==
    IF S = {} THEN 0
    ELSE LET x == CHOOSE y \in S : TRUE
         IN  f[x] + SumOver(f, S \ {x})

TotalRows(table) == SumOver(table, DOMAIN table)

\* The model explores stores of at most MaxRows favorite and cart rows.
WithinRows(fav, cart) == TotalRows(fav) + TotalRows(cart) <= MaxRows

OtherUnchanged ==
    UNCHANGED <<subscriptions, sub_history, users, recipes_ingredients, tokens, reqs>>

favorite ==
    \E user \in Requesters, pk \in RecipePks :
        IF ~IsAuthenticated(user)
        THEN /\ resp' = Response("favorite", user, pk, HTTP_401_UNAUTHORIZED, {})
             /\ UNCHANGED <<favorites, groceries_list>>
        ELSE LET r == cart_favorite_method(favorites, user, pk)
             IN  /\ WithinRows(r.table, groceries_list)
                 /\ favorites' = r.table
                 /\ resp' = Response("favorite", user, pk, r.status, {})
                 /\ UNCHANGED groceries_list

delete_favorite ==
    \E user \in Requesters, pk \in RecipePks :
        IF ~IsAuthenticated(user)
        THEN /\ resp' = Response("delete_favorite", user, pk, HTTP_401_UNAUTHORIZED, {})
             /\ UNCHANGED <<favorites, groceries_list>>
        ELSE LET r == cart_favorite_method_delete(favorites, user, pk)
             IN  /\ favorites' = r.table
                 /\ resp' = Response("delete_favorite", user, pk, r.status, {})
                 /\ UNCHANGED groceries_list

shopping_cart ==
    \E user \in Requesters, pk \in RecipePks :
        IF ~IsAuthenticated(user)
        THEN /\ resp' = Response("shopping_cart", user, pk, HTTP_401_UNAUTHORIZED, {})
             /\ UNCHANGED <<favorites, groceries_list>>
        ELSE LET r == cart_favorite_method(groceries_list, user, pk)
             IN  /\ WithinRows(favorites, r.table)
                 /\ groceries_list' = r.table
                 /\ resp' = Response("shopping_cart", user, pk, r.status, {})
                 /\ UNCHANGED favorites

delete_shopping_cart ==
    \E user \in Requesters, pk \in RecipePks :
        IF ~IsAuthenticated(user)
        THEN /\ resp' = Response("delete_shopping_cart", user, pk, HTTP_401_UNAUTHORIZED, {})
             /\ UNCHANGED <<favorites, groceries_list>>
        ELSE LET r == cart_favorite_method_delete(groceries_list, user, pk)
             IN  /\ groceries_list' = r.table
                 /\ resp' = Response("delete_shopping_cart", user, pk, r.status, {})
                 /\ UNCHANGED favorites

\* GET /recipes/: the records of get_queryset for the requester.
list ==
    \E user \in Requesters :
        /\ resp' = Response("list", user, NULL, HTTP_200_OK, get_queryset(user))
        /\ UNCHANGED <<favorites, groceries_list>>

Init ==
    /\ favorites = EmptyRelation(UserIds, Recipes)
    /\ groceries_list = EmptyRelation(UserIds, Recipes)
    /\ subscriptions = EmptyRelation(UserIds, UserIds)
    /\ sub_history = [p \in UserPks \X UserPks |-> "never"]
    /\ users = <<>>
    /\ recipes_ingredients = {}
    /\ tokens = TokensAtLogin(RefreshTokens)
    /\ reqs = [c \in Clients |-> Idle]
    /\ resp = NoResponse

Next ==
    \/ favorite /\ OtherUnchanged
    \/ delete_favorite /\ OtherUnchanged
    \/ shopping_cart /\ OtherUnchanged
    \/ delete_shopping_cart /\ OtherUnchanged
    \/ list /\ OtherUnchanged

Spec == Init /\ [][Next]_vars

(***************************************************************************)
(* Subscriptions: the number of Subscription rows for each                 *)
(* (user, subscription) pair.  sub_history is a history variable: how    *)
(* far each pair has come through subscribe, unsubscribe, subscribe again.  *)
(***************************************************************************)
\* The uniqueness of the (subscriber, target) pair of the Subscription table.
SubscriptionPairUnique == TRUE

\* Subscription.objects.create: one more row, or an IntegrityError when
\* the pair is unique and already has a row.
Subscription_create(table, user, pk) ==
    IF SubscriptionPairUnique /\ table[<<user, pk>>] > 0
    THEN [raised |-> TRUE, table |-> table]
    ELSE [raised |-> FALSE, table |-> [table EXCEPT ![<<user, pk>>] = @ + 1]]

\* A delete that reports success and keeps the rows.
Subscription_delete_keeps_rows(table, user, pk) == table

\* user_subscriptions.delete(): every row of the pair.
Subscription_delete(table, user, pk) == [table EXCEPT ![<<user, pk>>] = 0]

\* The POST handler without its self-subscription test.
SubscribeUserAPIView_post_no_self_test(table, user, pk) ==
    IF pk \notin UserIds
    THEN [status |-> HTTP_404_NOT_FOUND, table |-> table]
    ELSE IF table[<<user, pk>>] > 0
    THEN [status |-> HTTP_400_BAD_REQUEST, table |-> table]
    ELSE LET c == Subscription_create(table, user, pk)
         IN  IF c.raised
             THEN [status |-> HTTP_500_INTERNAL_SERVER_ERROR, table |-> table]
             ELSE [status |-> HTTP_201_CREATED, table |-> c.table]

SubscribeUserAPIView_post(table, user, pk) ==
    IF pk \notin UserIds
    THEN [status |-> HTTP_404_NOT_FOUND, table |-> table]
    ELSE IF user = pk
    THEN [status |-> HTTP_400_BAD_REQUEST, table |-> table]
    ELSE IF table[<<user, pk>>] > 0
    THEN [status |-> HTTP_400_BAD_REQUEST, table |-> table]
    ELSE LET c == Subscription_create(table, user, pk)
         IN  IF c.raised
             THEN [status |-> HTTP_500_INTERNAL_SERVER_ERROR, table |-> table]
             ELSE [status |-> HTTP_201_CREATED, table |-> c.table]

SubscribeUserAPIView_delete(table, user, pk) ==
    IF pk \notin UserIds
    THEN [status |-> HTTP_404_NOT_FOUND, table |-> table]
    ELSE IF table[<<user, pk>>] > 0
    THEN [status |-> HTTP_204_NO_CONTENT, table |-> Subscription_delete(table, user, pk)]
    ELSE [status |-> HTTP_400_BAD_REQUEST, table |-> table]

SubUnchanged ==
    UNCHANGED <<favorites, groceries_list, users, recipes_ingredients, tokens, reqs>>

subscribe ==
    \E user \in Requesters, pk \in UserPks :
        IF ~IsAuthenticated(user)
        THEN /\ resp' = Response("subscribe", user, pk, HTTP_401_UNAUTHORIZED, {})
             /\ UNCHANGED <<subscriptions, sub_history>>
        ELSE LET r == SubscribeUserAPIView_post(subscriptions, user, pk)
             IN  /\ subscriptions' = r.table
                 /\ sub_history' = IF r.status = HTTP_201_CREATED
                                   THEN [sub_history EXCEPT ![<<user, pk>>] =
                                            IF @ = "unsubscribed" THEN "resubscribed"
                                            ELSE IF @ = "never" THEN "subscribed" ELSE @]
                                   ELSE sub_history
                 /\ resp' = Response("subscribe", user, pk, r.status, {})

unsubscribe ==
    \E user \in Requesters, pk \in UserPks :
        IF ~IsAuthenticated(user)
        THEN /\ resp' = Response("unsubscribe", user, pk, HTTP_401_UNAUTHORIZED, {})
             /\ UNCHANGED <<subscriptions, sub_history>>
        ELSE LET r == SubscribeUserAPIView_delete(subscriptions, user, pk)
             IN  /\ subscriptions' = r.table
                 /\ sub_history' = IF r.status = HTTP_204_NO_CONTENT
                                   THEN [sub_history EXCEPT ![<<user, pk>>] = "unsubscribed"]
                                   ELSE sub_history
                 /\ resp' = Response("unsubscribe", user, pk, r.status, {})

NextSub ==
    \/ subscribe /\ SubUnchanged
    \/ unsubscribe /\ SubUnchanged

SpecSub == Init /\ [][NextSub]_vars

(***************************************************************************)
(* Registration: the rows of the User table in order of their ids.         *)
(***************************************************************************)
Usernames == {"alice", "bob"}

Emails == {"alice@example.org", "bob@example.org"}

\* User.objects.get(username=username, email=email): the ids that match.
User_objects_get(table, username, email) ==
    {i \in DOMAIN table : table[i].username = username /\ table[i].email = email}

\* super().create(): the serializer validates the payload and saves one
\* new account, and the account's representation is returned.
UserCreateSerializer_save(table, username, email) ==
    Append(table, [username |-> username, email |-> email])

\* The registration without the lookup of an existing account.
UserViewSet_create_no_lookup(table, username, email) ==
    [status |-> HTTP_201_CREATED,
     table |-> UserCreateSerializer_save(table, username, email)]

UserViewSet_create(table, username, email) ==
    LET found == User_objects_get(table, username, email)
    IN  IF Cardinality(found) = 1
        THEN \* existing_user.save() rewrites the row it read
             [status |-> HTTP_200_OK, table |-> table]
        ELSE IF Cardinality(found) > 1
        THEN \* MultipleObjectsReturned is not caught
             [status |-> HTTP_500_INTERNAL_SERVER_ERROR, table |-> table]
        ELSE [status |-> HTTP_201_CREATED,
              table |-> UserCreateSerializer_save(table, username, email)]

UserUnchanged ==
    UNCHANGED <<favorites, groceries_list, subscriptions, sub_history, recipes_ingredients,
                tokens, reqs>>

create ==
    \E username \in Usernames, email \in Emails :
        LET r == UserViewSet_create(users, username, email)
        IN  /\ Len(r.table) <= MaxUsers
            /\ users' = r.table
            /\ resp' = Response("create", NULL, NULL, r.status,
                                {[email |-> email, username |-> username]})

NextUser == create /\ UserUnchanged

SpecUser == Init /\ [][NextUser]_vars

(***************************************************************************)
(* The shopping list export.  recipes_ingredients holds the rows of        *)
(* RecipesIngredients, one per (recipe, ingredient) pair.                  *)
(***************************************************************************)
\* The Ingredient table: (name, measurement_unit) is unique.
Ingredients ==
    <<[name |-> "Salt", measurement_unit |-> "g"],
      [name |-> "Salt", measurement_unit |-> "kg"],
      [name |-> "Sugar", measurement_unit |-> "g"]>>

\* Ingredient lists a recipe is created with: (ingredient id, amount).
Compositions ==
    { {<<1, 5>>}, {<<1, 10>>, <<3, 2>>}, {<<2, 1>>, <<3, 4>>} }

RecipesIngredientsOf(composition) ==
    UNION { { [recipe |-> r, ingredient |-> c[1], amount |-> c[2]] : c \in composition[r] }
            : r \in Recipes }

\* The join of the filter on every cart row, whoever the row belongs to.
CartJoin_any_user(user) ==
    UNION { { [row |-> x, user_id |-> u, n |-> k] :
                k \in 1..groceries_list[<<u, x.recipe>>] }
            : x \in recipes_ingredients, u \in UserIds }

\* .filter(recipe__groceries_list=user): the INNER JOIN of the rows with
\* the cart rows of the user, one joined row per matching cart row.
CartJoin(user) ==
    UNION { { [row |-> x, user_id |-> user, n |-> k] :
                k \in 1..groceries_list[<<user, x.recipe>>] }
            : x \in recipes_ingredients }

\* .values(ingredient_name, measurement_unit): the GROUP BY key of a row.
GroupKey(j) == Ingredients[j.row.ingredient]

\* Sum('amount') of a group of joined rows: NULL for no rows.
RECURSIVE SumAmount(_)
SumAmount(js) ==
    IF js = {} THEN [null |-> TRUE, value |-> 0]
    ELSE LET j == CHOOSE y \in js : TRUE
             rest == SumAmount(js \ {j})
         IN  [null |-> FALSE, value |-> j.row.amount + rest.value]

Coalesce(s, default) == IF s.null THEN default ELSE s.value

\* One line per group: "{name}({unit}) - {total}".
user_ingredients(user) ==
    LET joined == CartJoin(user)
        keys == {GroupKey(j) : j \in joined}
    IN  { [ingredient_name |-> k.name,
           measurement_unit |-> k.measurement_unit,
           total_amount |-> Coalesce(SumAmount({j \in joined : GroupKey(j) = k}), 0)]
          : k \in keys }

download_shopping_cart ==
    \E user \in Requesters :
        /\ resp' = IF IsAuthenticated(user)
                   THEN Response("download_shopping_cart", user, NULL, HTTP_200_OK,
                                 user_ingredients(user))
                   ELSE Response("download_shopping_cart", user, NULL,
                                 HTTP_401_UNAUTHORIZED, {})
        /\ UNCHANGED <<favorites, groceries_list>>

InitCart ==
    /\ favorites = EmptyRelation(UserIds, Recipes)
    /\ groceries_list = EmptyRelation(UserIds, Recipes)
    /\ subscriptions = EmptyRelation(UserIds, UserIds)
    /\ sub_history = [p \in UserPks \X UserPks |-> "never"]
    /\ users = <<>>
    /\ recipes_ingredients \in {RecipesIngredientsOf(c) : c \in [Recipes -> Compositions]}
    /\ tokens = TokensAtLogin(RefreshTokens)
    /\ reqs = [c \in Clients |-> Idle]
    /\ resp = NoResponse

NextCart ==
    \/ shopping_cart /\ OtherUnchanged
    \/ delete_shopping_cart /\ OtherUnchanged
    \/ download_shopping_cart /\ OtherUnchanged

SpecCart == InitCart /\ [][NextCart]_vars

(***************************************************************************)
(* Two add requests handled at the same time.  Each query of a handler is  *)
(* a step of its own: the reads up to the existence test, then the write.  *)
(* reqs[c] is the request of client c, its position and its response.      *)
(***************************************************************************)
ConcUnchanged == UNCHANGED <<sub_history, users, recipes_ingredients, tokens, resp>>

\* The pks a request of the kind can name.
PksOf(op) == IF op = "subscribe" THEN UserPks ELSE RecipePks

Finished(c, status) == [reqs EXCEPT ![c].pc = "done", ![c].status = status]

\* An authenticated client sends a POST to favorite, shopping_cart or subscribe.
conc_accept ==
    \E c \in Clients, op \in {"favorite", "shopping_cart", "subscribe"}, user \in UserIds :
        \E pk \in PksOf(op) :
            /\ reqs[c].pc = "idle"
            /\ reqs' = [reqs EXCEPT ![c] = [op |-> op, user |-> user, pk |-> pk,
                                            pc |-> "read", status |-> 0]]
            /\ UNCHANGED <<favorites, groceries_list, subscriptions>>

\* cart_favorite_method up to relation.exists().
conc_read_recipe ==
    \E c \in Clients :
        /\ reqs[c].pc = "read"
        /\ reqs[c].op \in {"favorite", "shopping_cart"}
        /\ LET table == IF reqs[c].op = "favorite" THEN favorites ELSE groceries_list
           IN  reqs' = IF reqs[c].pk \notin Recipes
                       THEN Finished(c, HTTP_500_INTERNAL_SERVER_ERROR)
                       ELSE IF relation_exists(table, reqs[c].user, reqs[c].pk)
                       THEN Finished(c, HTTP_400_BAD_REQUEST)
                       ELSE [reqs EXCEPT ![c].pc = "write"]
        /\ UNCHANGED <<favorites, groceries_list, subscriptions>>

\* cart_favorite_method from table.add(recipe) on.
conc_write_recipe ==
    \E c \in Clients :
        /\ reqs[c].pc = "write"
        /\ reqs[c].op \in {"favorite", "shopping_cart"}
        /\ IF reqs[c].op = "favorite"
           THEN /\ favorites' = M2M_add(favorites, reqs[c].user, reqs[c].pk)
                /\ UNCHANGED groceries_list
           ELSE /\ groceries_list' = M2M_add(groceries_list, reqs[c].user, reqs[c].pk)
                /\ UNCHANGED favorites
        /\ reqs' = Finished(c, HTTP_201_CREATED)
        /\ UNCHANGED subscriptions

\* SubscribeUserAPIView.post up to user_subscriptions.exists().
conc_read_subscribe ==
    \E c \in Clients :
        /\ reqs[c].pc = "read"
        /\ reqs[c].op = "subscribe"
        /\ reqs' = IF reqs[c].pk \notin UserIds
                   THEN Finished(c, HTTP_404_NOT_FOUND)
                   ELSE IF reqs[c].user = reqs[c].pk
                   THEN Finished(c, HTTP_400_BAD_REQUEST)
                   ELSE IF subscriptions[<<reqs[c].user, reqs[c].pk>>] > 0
                   THEN Finished(c, HTTP_400_BAD_REQUEST)
                   ELSE [reqs EXCEPT ![c].pc = "write"]
        /\ UNCHANGED <<favorites, groceries_list, subscriptions>>

\* SubscribeUserAPIView.post from Subscription.objects.create on.
conc_write_subscribe ==
    \E c \in Clients :
        /\ reqs[c].pc = "write"
        /\ reqs[c].op = "subscribe"
        /\ LET r == Subscription_create(subscriptions, reqs[c].user, reqs[c].pk)
           IN  /\ subscriptions' = r.table
               /\ reqs' = IF r.raised
                          THEN Finished(c, HTTP_500_INTERNAL_SERVER_ERROR)
                          ELSE Finished(c, HTTP_201_CREATED)
        /\ UNCHANGED <<favorites, groceries_list>>

NextConc ==
    \/ conc_accept /\ ConcUnchanged
    \/ conc_read_recipe /\ ConcUnchanged
    \/ conc_write_recipe /\ ConcUnchanged
    \/ conc_read_subscribe /\ ConcUnchanged
    \/ conc_write_subscribe /\ ConcUnchanged

SpecConc == Init /\ [][NextConc]_vars

(***************************************************************************)
(* Logout.  tokens holds the token strings with an OutstandingToken row    *)
(* and those with a BlacklistedToken row.  Each query of the handler is a  *)
(* step of its own, and a query may fail with a database error.            *)
(***************************************************************************)
\* OutstandingToken.objects.filter(token=access_token).delete(): the rows
\* of the token, and the BlacklistedToken rows that reference them.
OutstandingToken_delete(t, access) ==
    [t EXCEPT !.outstanding = @ \ {access}, !.blacklisted = @ \ {access}]

\* RefreshToken(refresh_token): the token verifies as a refresh token and
\* is not blacklisted; otherwise the constructor raises TokenError.
RefreshToken_verifies(t, refresh) ==
    refresh \in RefreshTokens /\ refresh \notin t.blacklisted

\* blacklist(), first query: get_or_create of the OutstandingToken row.
OutstandingToken_get_or_create(t, refresh) ==
    [t EXCEPT !.outstanding = @ \cup {refresh}]

\* blacklist(), second query: get_or_create of the BlacklistedToken row.
BlacklistedToken_get_or_create(t, refresh) ==
    [t EXCEPT !.blacklisted = @ \cup {refresh}]

\* A handler that catches the token error only.
except_TokenError_only(exc) ==
    IF exc = "TokenError" THEN HTTP_401_UNAUTHORIZED ELSE HTTP_500_INTERNAL_SERVER_ERROR

\* except Exception: whatever was raised, the response is the 401.
except_Exception(exc) == HTTP_401_UNAUTHORIZED

\* The handler run alone with no failing query.
TokenLogoutView_post(t, access, refresh) ==
    LET t1 == IF access # NoToken THEN OutstandingToken_delete(t, access) ELSE t
    IN  IF refresh = NoToken
        THEN [status |-> HTTP_204_NO_CONTENT, tokens |-> t1]
        ELSE IF ~RefreshToken_verifies(t1, refresh)
        THEN [status |-> except_Exception("TokenError"), tokens |-> t1]
        ELSE [status |-> HTTP_204_NO_CONTENT,
              tokens |-> BlacklistedToken_get_or_create(
                             OutstandingToken_get_or_create(t1, refresh), refresh)]

LogoutUnchanged ==
    UNCHANGED <<favorites, groceries_list, subscriptions, sub_history, users,
                recipes_ingredients, resp>>

\* A client sends POST /auth/token/logout/ with or without a bearer token
\* and with or without a refresh_token; IsAuthenticated turns away a
\* request that carries no valid access token.
logout_accept ==
    \E c \in Clients, access \in AccessTokens \cup {NoToken},
       refresh \in RefreshTokens \cup {BadToken, NoToken} :
        /\ reqs[c].pc = "idle"
        /\ reqs' = [reqs EXCEPT ![c] =
                      [op |-> "logout", user |-> NULL, pk |-> NULL,
                       access |-> access, refresh |-> refresh,
                       pc |-> IF access = NoToken THEN "done" ELSE "delete_access",
                       status |-> IF access = NoToken THEN HTTP_401_UNAUTHORIZED ELSE 0]]
        /\ UNCHANGED tokens

\* if access_token: OutstandingToken.objects.filter(...).delete()
logout_delete_access ==
    \E c \in Clients, fault \in BOOLEAN :
        /\ reqs[c].pc = "delete_access"
        /\ IF fault
           THEN /\ reqs' = Finished(c, except_Exception("DatabaseError"))
                /\ UNCHANGED tokens
           ELSE /\ tokens' = OutstandingToken_delete(tokens, reqs[c].access)
                /\ reqs' = IF reqs[c].refresh = NoToken
                           THEN Finished(c, HTTP_204_NO_CONTENT)
                           ELSE [reqs EXCEPT ![c].pc = "verify"]

\* if refresh_token: RefreshToken(refresh_token)
logout_verify_refresh ==
    \E c \in Clients :
        /\ reqs[c].pc = "verify"
        /\ reqs' = IF RefreshToken_verifies(tokens, reqs[c].refresh)
                   THEN [reqs EXCEPT ![c].pc = "blacklist_outstanding"]
                   ELSE Finished(c, except_Exception("TokenError"))
        /\ UNCHANGED tokens

\* .blacklist(): OutstandingToken.objects.get_or_create
logout_blacklist_outstanding ==
    \E c \in Clients, fault \in BOOLEAN :
        /\ reqs[c].pc = "blacklist_outstanding"
        /\ IF fault
           THEN /\ reqs' = Finished(c, except_Exception("DatabaseError"))
                /\ UNCHANGED tokens
           ELSE /\ tokens' = OutstandingToken_get_or_create(tokens, reqs[c].refresh)
                /\ reqs' = [reqs EXCEPT ![c].pc = "blacklist_create"]

\* .blacklist(): BlacklistedToken.objects.get_or_create, then the 204
logout_blacklist_create ==
    \E c \in Clients, fault \in BOOLEAN :
        /\ reqs[c].pc = "blacklist_create"
        /\ IF fault
           THEN /\ reqs' = Finished(c, except_Exception("DatabaseError"))
                /\ UNCHANGED tokens
           ELSE /\ tokens' = BlacklistedToken_get_or_create(tokens, reqs[c].refresh)
                /\ reqs' = Finished(c, HTTP_204_NO_CONTENT)

\* The logins may or may not have recorded the access tokens as outstanding.
InitLogout ==
    /\ favorites = EmptyRelation(UserIds, Recipes)
    /\ groceries_list = EmptyRelation(UserIds, Recipes)
    /\ subscriptions = EmptyRelation(UserIds, UserIds)
    /\ sub_history = [p \in UserPks \X UserPks |-> "never"]
    /\ users = <<>>
    /\ recipes_ingredients = {}
    /\ tokens \in {TokensAtLogin(RefreshTokens), TokensAtLogin(RefreshTokens \cup AccessTokens)}
    /\ reqs = [c \in Clients |-> Idle]
    /\ resp = NoResponse

NextLogout ==
    \/ logout_accept /\ LogoutUnchanged
    \/ logout_delete_access /\ LogoutUnchanged
    \/ logout_verify_refresh /\ LogoutUnchanged
    \/ logout_blacklist_outstanding /\ LogoutUnchanged
    \/ logout_blacklist_create /\ LogoutUnchanged

SpecLogout == InitLogout /\ [][NextLogout]_vars

(***************************************************************************)
(* Properties of the recipe endpoints.                                     *)
(***************************************************************************)
ClientError(status) == status \in 400..499

AddOps == {"favorite", "shopping_cart"}

DeleteOps == {"delete_favorite", "delete_shopping_cart"}

\* The relation an operation works on, before and after the step.
TableOf(op) == IF op \in {"favorite", "delete_favorite"} THEN favorites ELSE groceries_list

TableOfNext(op) == IF op \in {"favorite", "delete_favorite"} THEN favorites' ELSE groceries_list'

\* C1: every record the recipe query returns to an authenticated user U
\* carries is_favorited = (U is in the recipe's favorites) and
\* is_in_shopping_cart = (U is in the recipe's cart), whoever else has
\* favorited or carted the recipe.
C1_FlagsMatchRelations ==
    (resp.op = "list" /\ resp.user # NULL) =>
        \A rec \in resp.body :
            /\ rec.is_favorited = (favorites[<<resp.user, rec.id>>] > 0)
            /\ rec.is_in_shopping_cart = (groceries_list[<<resp.user, rec.id>>] > 0)

\* C2: every record the recipe query returns to the anonymous requester
\* has both flags false, also for recipes nobody has favorited or carted.
C2_AnonymousFlagsFalse ==
    (resp.op = "list" /\ resp.user = NULL) =>
        \A rec \in resp.body : ~rec.is_favorited /\ ~rec.is_in_shopping_cart

\* C3: an add of a (user, recipe) pair that is already in the target
\* relation answers 400 and changes no relation; the pair keeps one row.
C3_DuplicateAddRejected ==
    [][ (/\ resp'.op \in AddOps
         /\ IsAuthenticated(resp'.user)
         /\ resp'.pk \in Recipes
         /\ TableOf(resp'.op)[<<resp'.user, resp'.pk>>] > 0)
        => /\ resp'.status = HTTP_400_BAD_REQUEST
           /\ favorites' = favorites
           /\ groceries_list' = groceries_list
           /\ TableOfNext(resp'.op)[<<resp'.user, resp'.pk>>] = 1 ]_vars

C3_Witness ==
    /\ resp.op = "favorite"
    /\ resp.status = HTTP_400_BAD_REQUEST
    /\ resp.pk \in Recipes
    /\ favorites[<<resp.user, resp.pk>>] = 1

\* C4: a remove for an existing recipe answers 400 and changes no relation
\* when the (user, recipe) pair is absent; when the pair is present it
\* answers 204 and deletes that pair and no other row.
C4_RemoveAbsentOrPresent ==
    [][ (/\ resp'.op \in DeleteOps
         /\ IsAuthenticated(resp'.user)
         /\ resp'.pk \in Recipes)
        => IF TableOf(resp'.op)[<<resp'.user, resp'.pk>>] = 0
           THEN /\ resp'.status = HTTP_400_BAD_REQUEST
                /\ favorites' = favorites
                /\ groceries_list' = groceries_list
                /\ UNCHANGED <<subscriptions, users, recipes_ingredients>>
           ELSE /\ resp'.status = HTTP_204_NO_CONTENT
                /\ resp'.body = {}
                /\ TableOfNext(resp'.op)[<<resp'.user, resp'.pk>>] = 0
                /\ \A p \in DOMAIN favorites :
                       (resp'.op # "delete_favorite" \/ p # <<resp'.user, resp'.pk>>)
                           => favorites'[p] = favorites[p]
                /\ \A p \in DOMAIN groceries_list :
                       (resp'.op # "delete_shopping_cart" \/ p # <<resp'.user, resp'.pk>>)
                           => groceries_list'[p] = groceries_list[p] ]_vars

\* A successful removal that left another favorite of the same user alone.
C4_Witness ==
    /\ resp.op = "delete_favorite"
    /\ resp.status = HTTP_204_NO_CONTENT
    /\ favorites[<<resp.user, resp.pk>>] = 0
    /\ \E r \in Recipes : r # resp.pk /\ favorites[<<resp.user, r>>] = 1

\* C10: an add for a recipe id that is not in the store answers with a
\* client error and changes neither the favorites nor the cart relation.
C10_MissingRecipeClientError ==
    [][ (/\ resp'.op \in AddOps
         /\ IsAuthenticated(resp'.user)
         /\ resp'.pk \notin Recipes)
        => /\ ClientError(resp'.status)
           /\ favorites' = favorites
           /\ groceries_list' = groceries_list ]_vars

\* C12: the recipe query returns each stored recipe exactly once, however
\* many users have it in their favorites or cart, so the number of records
\* that pagination counts is the number of recipes.
C12_EachRecipeOnce ==
    resp.op = "list" =>
        /\ \A r \in Recipes : Cardinality({rec \in resp.body : rec.id = r}) = 1
        /\ Cardinality(resp.body) = Cardinality(Recipes)

(***************************************************************************)
(* Properties of the subscription endpoint.                                *)
(***************************************************************************)
\* C5: subscribe with user = target answers with a client error and
\* inserts nothing, whatever the Subscription relation holds; so the
\* relation never holds a row whose subscriber is its target.
C5_SelfSubscriptionFails ==
    /\ [](\A u \in UserIds : subscriptions[<<u, u>>] = 0)
    /\ [][ (/\ resp'.op = "subscribe"
            /\ IsAuthenticated(resp'.user)
            /\ resp'.user = resp'.pk)
           => /\ ClientError(resp'.status)
              /\ subscriptions' = subscriptions ]_vars

\* A self-subscription turned away while the user has a subscription.
C5_Witness ==
    /\ resp.op = "subscribe"
    /\ resp.user # NULL
    /\ resp.user = resp.pk
    /\ resp.status = HTTP_400_BAD_REQUEST
    /\ \E t \in UserIds : subscriptions[<<resp.user, t>>] = 1

\* C9: for distinct users U and T, the subscribe that follows a successful
\* subscribe and a successful unsubscribe of (U, T) answers 201 and leaves
\* the pair in the relation exactly once; an unsubscribe of an absent pair
\* answers with a client error and changes nothing.
C9_ResubscribeSucceeds ==
    [][ /\ (/\ resp'.op = "subscribe"
            /\ IsAuthenticated(resp'.user)
            /\ resp'.user # resp'.pk
            /\ sub_history[<<resp'.user, resp'.pk>>] = "unsubscribed")
           => /\ resp'.status = HTTP_201_CREATED
              /\ subscriptions'[<<resp'.user, resp'.pk>>] = 1
        /\ (/\ resp'.op = "unsubscribe"
            /\ IsAuthenticated(resp'.user)
            /\ resp'.pk \in UserIds
            /\ subscriptions[<<resp'.user, resp'.pk>>] = 0)
           => /\ ClientError(resp'.status)
              /\ subscriptions' = subscriptions ]_vars

\* The pair was subscribed, unsubscribed and has just been subscribed again.
C9_Witness ==
    /\ resp.op = "subscribe"
    /\ resp.status = HTTP_201_CREATED
    /\ sub_history[<<resp.user, resp.pk>>] = "resubscribed"
    /\ subscriptions[<<resp.user, resp.pk>>] = 1

AmountIn(r, i) ==
    LET rows == {x \in recipes_ingredients : x.recipe = r /\ x.ingredient = i}
    IN  IF rows = {} THEN 0 ELSE (CHOOSE x \in rows : TRUE).amount

\* The total of group k over the recipes in the cart of user, recipe by recipe.
ExpectedTotal(user, k) ==
    LET cart == {r \in Recipes : groceries_list[<<user, r>>] > 0}
        f == [p \in cart \X DOMAIN Ingredients |->
                 IF Ingredients[p[2]] = k THEN AmountIn(p[1], p[2]) ELSE 0]
    IN  SumOver(f, DOMAIN f)

\* The (name, unit) groups that occur in a recipe of the cart of user.
ExpectedGroups(user) ==
    { Ingredients[x.ingredient] :
        x \in {y \in recipes_ingredients : groceries_list[<<user, y.recipe>>] > 0} }

\* C6: the export for user U has exactly one line for each (name, unit)
\* group that occurs in a recipe of U's cart, the line's total is the sum
\* of the amounts of that group over U's cart recipes, and no line names a
\* group that occurs in no recipe of U's cart.
C6_ShoppingListTotals ==
    (resp.op = "download_shopping_cart" /\ resp.status = HTTP_200_OK) =>
        /\ \A k \in ExpectedGroups(resp.user) :
               Cardinality({l \in resp.body : l.ingredient_name = k.name
                               /\ l.measurement_unit = k.measurement_unit}) = 1
        /\ \A l \in resp.body :
               LET k == [name |-> l.ingredient_name, measurement_unit |-> l.measurement_unit]
               IN  /\ k \in ExpectedGroups(resp.user)
                   /\ l.total_amount = ExpectedTotal(resp.user, k)
                   /\ l.total_amount > 0

\* Salt by the gram, 5 in one cart recipe and 10 in another, exported as 15
\* while the cart recipes also bring a second group.
C6_Witness ==
    /\ resp.op = "download_shopping_cart"
    /\ resp.status = HTTP_200_OK
    /\ [ingredient_name |-> "Salt", measurement_unit |-> "g", total_amount |-> 15] \in resp.body
    /\ Cardinality(resp.body) = 2

(***************************************************************************)
(* Properties of adds handled at the same time.                            *)
(***************************************************************************)
\* The rows of the pair a finished add request names.
RowsOf(q) ==
    IF q.op = "favorite" THEN favorites[<<q.user, q.pk>>]
    ELSE IF q.op = "shopping_cart" THEN groceries_list[<<q.user, q.pk>>]
    ELSE subscriptions[<<q.user, q.pk>>]

\* An add of a pair the relation can hold: the target exists and, for a
\* subscription, is not the subscriber.
ValidAdd(q) ==
    IF q.op = "subscribe" THEN q.pk \in UserIds /\ q.pk # q.user
    ELSE q.pk \in Recipes

\* C8: when two identical add requests for one pair are handled at the
\* same time, in any interleaving, exactly one of them inserts the pair
\* (201), the other gets the already-exists client error (400), never a
\* server error, and the relation ends with one row for the pair.
C8_AddIsAtomicCheckThenWrite ==
    \A c \in Clients, d \in Clients :
        (/\ c # d
         /\ reqs[c].pc = "done" /\ reqs[d].pc = "done"
         /\ reqs[c].op = reqs[d].op /\ reqs[c].user = reqs[d].user /\ reqs[c].pk = reqs[d].pk
         /\ ValidAdd(reqs[c]))
        => /\ RowsOf(reqs[c]) = 1
           /\ {reqs[c].status, reqs[d].status} = {HTTP_201_CREATED, HTTP_400_BAD_REQUEST}

(***************************************************************************)
(* Properties of logout.                                                   *)
(***************************************************************************)
\* C11: a logout never answers with a server error: it ends in 401 when a
\* query or the refresh token fails and in 204 otherwise; and when two
\* logouts with the same credentials have run, one after the other or
\* interleaved, and one of them succeeded, the token tables are those a
\* single successful logout with the credentials leaves.
C11_LogoutNeverServerError ==
    /\ \A c \in Clients :
           (reqs[c].op = "logout" /\ reqs[c].pc = "done")
               => reqs[c].status \in {HTTP_204_NO_CONTENT, HTTP_401_UNAUTHORIZED}
    /\ \A c \in Clients, d \in Clients :
           (/\ c # d
            /\ reqs[c].op = "logout" /\ reqs[d].op = "logout"
            /\ reqs[c].pc = "done" /\ reqs[d].pc = "done"
            /\ reqs[c].access = reqs[d].access /\ reqs[c].refresh = reqs[d].refresh
            /\ HTTP_204_NO_CONTENT \in {reqs[c].status, reqs[d].status})
           => LET once == TokenLogoutView_post(TokensAtLogin(tokens.at_login),
                                               reqs[c].access, reqs[c].refresh)
              IN  /\ once.status = HTTP_204_NO_CONTENT
                  /\ tokens = once.tokens

\* Two interleaved logouts with one access and one refresh token: both
\* verified the refresh token before either blacklisted it, both got 204.
C11_Witness ==
    /\ \A c \in Clients :
           /\ reqs[c].op = "logout" /\ reqs[c].pc = "done"
           /\ reqs[c].status = HTTP_204_NO_CONTENT
           /\ reqs[c].access = "access1" /\ reqs[c].refresh = "refresh1"
    /\ "refresh1" \in tokens.blacklisted
    /\ "access1" \in tokens.at_login

====
